---- MODULE Spec2Model ----
(***************************************************************************)
(* Pangloss: the coordinator (DockerOrchestrator), the scoring and ranking *)
(* of agent results (ResultMerger) and the generate pipeline (Pangloss).   *)
(*                                                                         *)
(* JavaScript numbers are modelled as exact non-negative rationals plus    *)
(* the two special values the code can produce, NaN and +Infinity; a       *)
(* number field read back from JSON can also hold null.                    *)
(***************************************************************************)
EXTENDS Integers, Sequences, FiniteSets, TLC

(***************************************************************************)
(* Bounds of the model.                                                    *)
(***************************************************************************)
MaxAgents == 2
MaxTotal == 2
MaxRank == 3
MaxLines == 2
MaxRuns == 2

(***************************************************************************)
(* JavaScript number arithmetic on [k, n, d]: k = "num" is the rational    *)
(* n/d in lowest terms, k = "nan" is NaN, k = "inf" is +Infinity.          *)
(***************************************************************************)
RECURSIVE GCD(_, _)
GCD(a, b) == IF b = 0 THEN a ELSE GCD(b, a % b)

Rat(n, d) == LET g == GCD(n, d) IN [k |-> "num", n |-> n \div g, d |-> d \div g]
NaN == [k |-> "nan", n |-> 0, d |-> 1]
Infinity == [k |-> "inf", n |-> 1, d |-> 1]
Num(i) == [k |-> "num", n |-> i, d |-> 1]
\* null where a number is expected: what JSON.stringify writes for NaN and
\* Infinity, and what JSON.parse reads back
Null == [k |-> "null", n |-> 0, d |-> 1]
\* the numeric value arithmetic gives an operand: null counts as 0
ToNumber(x) == IF x.k = "null" THEN Num(0) ELSE x

IsNum(x) == x.k = "num"
IsZero(x) == x.k = "num" /\ x.n = 0

\* x / y
JSDiv(x, y) ==
  IF x.k = "nan" \/ y.k = "nan" THEN NaN
  ELSE IF y.k = "inf" THEN (IF x.k = "inf" THEN NaN ELSE Num(0))
  ELSE IF x.k = "inf" THEN Infinity
  ELSE IF y.n = 0 THEN (IF x.n = 0 THEN NaN ELSE Infinity)
  ELSE Rat(x.n * y.d, x.d * y.n)

\* x * y
JSTimes(x, y) ==
  IF x.k = "nan" \/ y.k = "nan" THEN NaN
  ELSE IF x.k = "inf" \/ y.k = "inf"
       THEN (IF IsZero(x) \/ IsZero(y) THEN NaN ELSE Infinity)
  ELSE Rat(x.n * y.n, x.d * y.d)

\* x + y
JSPlus(x, y) ==
  IF x.k = "nan" \/ y.k = "nan" THEN NaN
  ELSE IF x.k = "inf" \/ y.k = "inf" THEN Infinity
  ELSE Rat(x.n * y.d + y.n * x.d, x.d * y.d)

\* x < y, x <= y, x > y are false as soon as an operand is NaN
JSLess(x, y) ==
  /\ x.k # "nan" /\ y.k # "nan"
  /\ x.k # "inf"
  /\ (y.k = "inf" \/ x.n * y.d < y.n * x.d)

JSLeq(x, y) ==
  /\ x.k # "nan" /\ y.k # "nan"
  /\ (y.k = "inf" \/ (x.k = "num" /\ x.n * y.d <= y.n * x.d))

\* Math.min(x, y)
MathMin(x, y) ==
  IF x.k = "nan" \/ y.k = "nan" THEN NaN
  ELSE IF JSLess(y, x) THEN y ELSE x

(***************************************************************************)
(* Optional test summary of an AgentResult.                                *)
(***************************************************************************)
NoTests == [present |-> FALSE, passed |-> 0, total |-> 0]
Tests(p, t) == [present |-> TRUE, passed |-> p, total |-> t]

(***************************************************************************)
(* Pangloss.generate: the weights of the merge strategy.                   *)
(***************************************************************************)
DefaultWeights ==
  [test_success |-> Rat(2, 5), code_quality |-> Rat(3, 10),
   performance |-> Rat(1, 5), coverage |-> Rat(1, 10)]

BuildBonus == Rat(1, 10)

(***************************************************************************)
(* ResultMerger.calculateCompositeScore and its four sub-scores.           *)
(***************************************************************************)
TestScore(result) ==
  IF result.test_results.present
  THEN JSDiv(Num(result.test_results.passed), Num(result.test_results.total))
  ELSE Num(0)

BuildScore(result) == IF result.build_status = "success" THEN Num(1) ELSE Num(0)

QualityScore(result) == JSDiv(ToNumber(result.quality_score), Num(100))

\* the same without the cap at 1
PerformanceScore_Uncapped(result) ==
  JSDiv(Num(10000), Num(result.execution_time_ms))

\* the same with the quotient upside down
PerformanceScore_Inverted(result) ==
  MathMin(Num(1), JSDiv(Num(result.execution_time_ms), Num(10000)))

PerformanceScore(result) ==
  MathMin(Num(1), JSDiv(Num(10000), Num(result.execution_time_ms)))

\* the same without the build bonus
calculateCompositeScore_NoBuildBonus(result, weights) ==
  JSPlus(JSPlus(JSTimes(TestScore(result), weights.test_success),
                JSTimes(QualityScore(result), weights.code_quality)),
         JSTimes(PerformanceScore(result), weights.performance))

calculateCompositeScore(result, weights) ==
  JSPlus(JSPlus(JSPlus(JSTimes(TestScore(result), weights.test_success),
                       JSTimes(QualityScore(result), weights.code_quality)),
                JSTimes(PerformanceScore(result), weights.performance)),
         JSTimes(BuildScore(result), BuildBonus))

(***************************************************************************)
(* ResultMerger.rankResults: Array.prototype.sort with the comparator      *)
(* (a, b) => b.composite_score - a.composite_score.  A NaN comparator      *)
(* result counts as +0.  The sort is stable when the comparator is         *)
(* consistent; otherwise the order is implementation-defined, which is     *)
(* modelled as any permutation of the input.                               *)
(***************************************************************************)
\* sign of (b - a), NaN taken as 0: negative means a sorts before b
SortCompare(a, b) ==
  IF a.k = "nan" \/ b.k = "nan" THEN 0
  ELSE IF a.k = "inf" /\ b.k = "inf" THEN 0
  ELSE IF JSLess(b, a) THEN -1
  ELSE IF JSLess(a, b) THEN 1
  ELSE 0

ConsistentComparator(scores) ==
  \A i, j, l \in DOMAIN scores :
    (SortCompare(scores[i], scores[j]) = 0 /\ SortCompare(scores[j], scores[l]) = 0)
      => SortCompare(scores[i], scores[l]) = 0

\* the permutations of 1..n, as sequences of indices
IndexPermutations(n) ==
  {p \in [1..n -> 1..n] : \A i, j \in 1..n : p[i] = p[j] => i = j}

\* the stable descending order: index p[i] of the input is at place i
StableOrders(scores) ==
  {p \in IndexPermutations(Len(scores)) :
     \A i, j \in 1..Len(scores) :
       i < j => \/ SortCompare(scores[p[i]], scores[p[j]]) < 0
                \/ (SortCompare(scores[p[i]], scores[p[j]]) = 0 /\ p[i] < p[j])}

SortOrders(scores) ==
  IF ConsistentComparator(scores)
  THEN StableOrders(scores)
  ELSE IndexPermutations(Len(scores))

WithScore(result, weights) ==
  [result |-> result, composite_score |-> calculateCompositeScore(result, weights)]

\* the set of lists rankResults can return
rankResults(results, weights) ==
  LET scored == [i \in 1..Len(results) |-> WithScore(results[i], weights)]
      scores == [i \in 1..Len(results) |-> scored[i].composite_score]
  IN {[i \in 1..Len(results) |-> scored[p[i]]] : p \in SortOrders(scores)}

(***************************************************************************)
(* Configuration (getDefaultConfig): preset name -> provider.              *)
(***************************************************************************)
\* two of the presets; they share a provider
PresetNames == {"codex-o3", "codex-gpt4"}

\* a name that is no preset but that every object inherits from
\* Object.prototype: config.llm_presets[name] is a function, not undefined
PrototypeNames == {"constructor"}

\* config.llm_presets[name].provider
Provider(name) ==
  CASE name = "codex-o3" -> "openai"
    [] name = "codex-gpt4" -> "openai"
    [] name \in PrototypeNames -> "undefined"

Providers == {Provider(name) : name \in PresetNames}

\* names a caller can pass in options.agents, one of them without a preset
RequestedNames == PresetNames \cup {"no-such-agent"}

AgentLists == UNION {[1..n -> RequestedNames] : n \in 1..MaxAgents}

\* options.merge_strategy is an unchecked string
StrategyNames == {"best_overall", "best_per_file", "composite", "unknown"}

(***************************************************************************)
(* Pangloss.generate: the request of each agent and the final branch.      *)
(* A branch name `repo/feature/x` is modelled by its last component x.     *)
(***************************************************************************)
BranchName(agentId) == agentId
FinalBranch == "final"

AgentRequests(agentList) ==
  [i \in 1..Len(agentList) |->
     [branch_name |-> BranchName(agentList[i]), provider |-> Provider(agentList[i])]]

\* options.agents.filter(agent => !this.config.llm_presets[agent]): the
\* lookup finds the presets and the inherited properties
InvalidAgents(agentList) ==
  {i \in 1..Len(agentList) : agentList[i] \notin PresetNames \cup PrototypeNames}

(***************************************************************************)
(* AgentResult values.  shape = "null" is the JSON value null, which       *)
(* JSON.parse returns for a result file holding `null`.                    *)
(***************************************************************************)
AgentResult(id, branch, ok, changes, tests, build, quality, time, err) ==
  [shape |-> "result", agent_id |-> id, branch_name |-> branch, success |-> ok,
   changes_made |-> changes, test_results |-> tests, build_status |-> build,
   quality_score |-> quality, execution_time_ms |-> time, error |-> err]

JsonNull ==
  [shape |-> "null", agent_id |-> "", branch_name |-> "", success |-> FALSE,
   changes_made |-> <<>>, test_results |-> NoTests, build_status |-> "",
   quality_score |-> Num(0), execution_time_ms |-> 0, error |-> "none"]

\* what a run measured: tests, build, quality and time
ProfileA == [tests |-> Tests(8, 10), build |-> "success", quality |-> 80, time |-> 5000]
ProfileB == [tests |-> Tests(10, 10), build |-> "success", quality |-> 60, time |-> 20000]
\* no test command and no build command succeeded (runTests, runBuild)
ProfileZ == [tests |-> Tests(0, 0), build |-> "failed", quality |-> 0, time |-> 20000]

SuccessResult(request, profile) ==
  AgentResult(request.provider, request.branch_name, TRUE, <<"file">>,
              profile.tests, profile.build, Num(profile.quality), profile.time,
              "none")

\* the same with the build status of the agent's own failure record
SyntheticFailure_BuildFailed(request, err) ==
  AgentResult(request.provider, request.branch_name, FALSE, <<>>,
              NoTests, "failed", Num(0), 0, err)

\* DockerOrchestrator.collectResults, the two substituted results
SyntheticFailure(request, err) ==
  AgentResult(request.provider, request.branch_name, FALSE, <<>>,
              NoTests, "not_run", Num(0), 0, err)

(***************************************************************************)
(* The results directory on the host: path -> file.  A file holding JSON   *)
(* is modelled by the value JSON.parse reads from it.                      *)
(***************************************************************************)
\* JSON.stringify of a number: NaN and Infinity are written as null
StringifyNumber(x) == IF x.k = "num" THEN x ELSE Null

\* JSON.stringify(result, null, 2): the document, as the value it denotes;
\* strings, booleans, arrays and absent fields are written as they are
JSONStringify(result) ==
  [result EXCEPT !.quality_score = StringifyNumber(@)]

\* join(resultsDir, `agent-${i}`, 'result.json'), i counted from 0
IndexPath(i) == [dir |-> "agent-", index |-> i]
\* `/results/${this.agentId}` + 'result.json'
IdPath(agentId) == [dir |-> agentId, index |-> -1]

Paths == {IndexPath(i) : i \in 0..(MaxAgents - 1)} \cup {IdPath(p) : p \in Providers}

Absent == [kind |-> "absent", value |-> JsonNull]
Unreadable == [kind |-> "unreadable", value |-> JsonNull]
JsonFile(v) == [kind |-> "json", value |-> v]

\* DockerOrchestrator.collectResults reads IndexPath(i)
CoordinatorPath(i) == IndexPath(i - 1)
\* AgentRunner.writeResult writes under AGENT_ID, which is the provider
AgentPath(request) == IdPath(request.provider)

collectResults(files, reqs) ==
  [i \in 1..Len(reqs) |->
     LET f == files[CoordinatorPath(i)] IN
       IF f.kind = "json" THEN f.value
       ELSE IF f.kind = "absent"
            THEN SyntheticFailure(reqs[i], "Agent did not complete execution")
            ELSE SyntheticFailure(reqs[i], "Failed to read result")]

\* the same without the filter
SuccessfulResults_Unfiltered(results) == results

\* Pangloss.generate: agentResults.filter(result => result.success)
SuccessfulResults(results) == SelectSeq(results, LAMBDA r : r.success)

\* the same for a display that reads no element
DisplayThrows_Never(results) == FALSE

\* displayAgentResults reads result.success of every element
DisplayThrows(results) == \E i \in 1..Len(results) : results[i].shape = "null"

(***************************************************************************)
(* State.                                                                  *)
(***************************************************************************)
VARIABLES
  agents,        \* options.agents of the generate call
  strategy,      \* options.merge_strategy of the generate call
  fs,            \* the host results directory: path -> file
  agentState,    \* per task: "pending", "wrote_success", "wrote_failure", "crashed"
  written,       \* per task: the document its agent wrote (JsonNull while none)
  pc,            \* position of Pangloss.generate
  runAgents,     \* the promise of runAgents: "pending", "resolved", "rejected"
  agentResults,  \* the list runAgents resolved with
  ranked,        \* rankedResults of mergeBestSolutions
  ops,           \* the git and gh commands spawned by the merge phase, in order
  outcome,       \* the GenerateResult returned
  cur,           \* scoring: the result being scored
  weights,       \* scoring: the weights
  scored,        \* scoring: sub-scores and composite of cur
  lastOp,        \* scoring: the last change made to cur
  rankIn,        \* ranking: the input list
  rankOut,       \* ranking: the list rankResults returned
  run            \* one agent in detail: the locals of AgentRunner.run

pipelineVars ==
  <<agents, strategy, fs, agentState, written, pc, runAgents, agentResults,
    ranked, ops, outcome>>
scoreVars == <<cur, weights, scored, lastOp>>
rankVars == <<rankIn, rankOut>>
vars == <<pipelineVars, scoreVars, rankVars, run>>

NoOutcome ==
  [returned |-> FALSE, success |-> FALSE, final_branch |-> "none",
   pr_url |-> "none", agent_results |-> <<>>, error |-> "none"]

GenerateResult(ok, final, pr, results, err) ==
  [returned |-> TRUE, success |-> ok, final_branch |-> final,
   pr_url |-> pr, agent_results |-> results, error |-> err]

\* Pangloss.generate, the catch block
Caught(err) == GenerateResult(FALSE, "none", "none", <<>>, err)

\* the generate command of the command line: it prints the agents of a
\* success outcome, reading agent.success of each, and exits with 1 for a
\* failure outcome and for anything thrown on the way
ExitCode(result) ==
  IF ~result.success THEN 1
  ELSE IF \E i \in 1..Len(result.agent_results) :
            result.agent_results[i].shape = "null"
       THEN 1
       ELSE 0

\* a spawned command; code is its exit code, -1 while it runs
Op(name, arg) == [op |-> name, arg |-> arg, code |-> -1]

Scoring(result, w) ==
  [test |-> TestScore(result), build |-> BuildScore(result),
   quality |-> QualityScore(result), perf |-> PerformanceScore(result),
   composite |-> calculateCompositeScore(result, w)]

IdleResult ==
  AgentResult("", "", FALSE, <<>>, NoTests, "not_run", Num(0), 0, "none")

ScoreIdle ==
  /\ cur = IdleResult
  /\ weights = DefaultWeights
  /\ scored = Scoring(IdleResult, DefaultWeights)
  /\ lastOp = "none"

RankIdle == rankIn = <<>> /\ rankOut = <<>>

\* AgentRunner.run: its position and the values it has gathered so far
NoRun ==
  [step |-> "idle", changedFiles |-> <<>>, testResults |-> NoTests,
   buildStatus |-> "not_run", quality |-> Num(0), error |-> "none",
   cli |-> "none", push |-> "none", cmds |-> <<>>]

RunIdle == run = NoRun

(***************************************************************************)
(* The files found in the results directory when generate is called: the   *)
(* directory is a host directory that generate neither creates afresh nor  *)
(* clears.  A record found at the coordinator's path of task i is one an   *)
(* agent of task i wrote, or one left there by an earlier call.            *)
(***************************************************************************)
FoundProfiles == {ProfileA, ProfileB, ProfileZ}

\* a record left at the same path by an earlier call of generate, one with a
\* single task of another preset
StaleFiles(agentList, i) ==
  IF i # 0 THEN {}
  ELSE {JsonFile(SuccessResult(AgentRequests(<<name>>)[1], ProfileA)) :
          name \in PresetNames \ {agentList[1]}}

\* the first two tasks find every kind of file; a later task finds no file
\* or a plain success record
FoundFiles(agentList, i) ==
  IF InvalidAgents(agentList) # {} \/ i >= Len(agentList)
  THEN {Absent}
  ELSE IF i >= 2
  THEN {Absent, JsonFile(SuccessResult(AgentRequests(agentList)[i + 1], ProfileA))}
  ELSE {Absent, Unreadable, JsonFile(JsonNull)} \cup
       {JsonFile(SuccessResult(AgentRequests(agentList)[i + 1], prof)) :
          prof \in FoundProfiles} \cup
       StaleFiles(agentList, i)

FoundDirectories(agentList) ==
  {[q \in Paths |-> IF q.index >= 0 THEN g[q.index] ELSE Absent] :
     g \in {h \in [0..(MaxAgents - 1) ->
                    UNION {FoundFiles(agentList, i) : i \in 0..(MaxAgents - 1)}] :
              \A i \in 0..(MaxAgents - 1) : h[i] \in FoundFiles(agentList, i)}}

Init ==
  /\ agents \in AgentLists
  /\ strategy \in StrategyNames
  /\ fs \in FoundDirectories(agents)
  /\ agentState = [i \in 1..Len(agents) |-> "pending"]
  /\ written = [i \in 1..Len(agents) |-> JsonNull]
  /\ pc = "start"
  /\ runAgents = "pending"
  /\ agentResults = <<>>
  /\ ranked = <<>>
  /\ ops = <<>>
  /\ outcome = NoOutcome
  /\ ScoreIdle
  /\ RankIdle
  /\ RunIdle

(***************************************************************************)
(* Pangloss.generate up to the launch of the agents (runAgents writes the  *)
(* compose file and spawns docker-compose up).                             *)
(***************************************************************************)
Validate ==
  /\ pc = "start"
  /\ IF InvalidAgents(agents) # {}
     THEN /\ pc' = "done"
          /\ outcome' = Caught("Invalid agents")
     ELSE /\ pc' = "agents"
          /\ UNCHANGED outcome
  /\ UNCHANGED <<agents, strategy, fs, agentState, written, runAgents,
                 agentResults, ranked, ops, scoreVars, rankVars, run>>

(***************************************************************************)
(* One agent container (AgentRunner.run): it runs to the end and writes    *)
(* its success record, or the container dies before a record is written.   *)
(***************************************************************************)
AgentProfiles == {ProfileA}

\* the container of task i runs from the launch of docker-compose up until
\* its process exits, whatever generate does meanwhile
ContainerRuns(i) ==
  /\ InvalidAgents(agents) = {}
  /\ pc # "start"
  /\ agentState[i] = "pending"

AgentWrites(i, record, state) ==
  /\ ContainerRuns(i)
  /\ fs' = [fs EXCEPT ![AgentPath(AgentRequests(agents)[i])] =
                         JsonFile(JSONStringify(record))]
  /\ written' = [written EXCEPT ![i] = JSONStringify(record)]
  /\ agentState' = [agentState EXCEPT ![i] = state]
  /\ UNCHANGED <<agents, strategy, pc, runAgents, agentResults, ranked, ops,
                 outcome, scoreVars, rankVars, run>>

AgentSucceeds(i) ==
  \E prof \in AgentProfiles :
    AgentWrites(i, SuccessResult(AgentRequests(agents)[i], prof), "wrote_success")

AgentCrashes(i) ==
  /\ ContainerRuns(i)
  /\ agentState' = [agentState EXCEPT ![i] = "crashed"]
  /\ UNCHANGED <<agents, strategy, fs, written, pc, runAgents, agentResults,
                 ranked, ops, outcome, scoreVars, rankVars, run>>

AllAgentsExited == \A i \in 1..Len(agents) : agentState[i] # "pending"

(***************************************************************************)
(* DockerOrchestrator.executeDockerCompose, the 'close' handler.           *)
(* docker-compose up runs attached: it exits with 0 once every container   *)
(* has exited.                                                             *)
(***************************************************************************)
\* the same for a docker-compose that returns while containers still run
ComposeCloseZero_Detached ==
  /\ pc = "agents"
  /\ agentResults' = collectResults(fs, AgentRequests(agents))
  /\ runAgents' = "resolved"
  /\ pc' = "collected"
  /\ UNCHANGED <<agents, strategy, fs, agentState, written, ranked, ops,
                 outcome, scoreVars, rankVars, run>>

ComposeCloseZero ==
  /\ pc = "agents"
  /\ AllAgentsExited
  /\ agentResults' = collectResults(fs, AgentRequests(agents))
  /\ runAgents' = "resolved"
  /\ pc' = "collected"
  /\ UNCHANGED <<agents, strategy, fs, agentState, written, ranked, ops,
                 outcome, scoreVars, rankVars, run>>

\* a non-zero exit code of docker-compose rejects runAgents, which generate
\* catches
ComposeCloseNonZero ==
  /\ pc = "agents"
  /\ runAgents' = "rejected"
  /\ pc' = "done"
  /\ outcome' = Caught("Docker compose failed")
  /\ UNCHANGED <<agents, strategy, fs, agentState, written, agentResults,
                 ranked, ops, scoreVars, rankVars, run>>

(***************************************************************************)
(* Pangloss.generate after runAgents resolved: display, filter, and either *)
(* the zero-success return or the start of mergeBestSolutions (rankResults *)
(* and the git clone of setupFinalBranch).                                 *)
(***************************************************************************)
AfterRunAgents ==
  /\ pc = "collected"
  /\ IF DisplayThrows(agentResults)
     THEN /\ pc' = "done"
          /\ outcome' = Caught("Cannot read properties of null")
          /\ UNCHANGED <<ranked, ops>>
     ELSE IF Len(SuccessfulResults(agentResults)) = 0
     THEN /\ pc' = "done"
          /\ outcome' = GenerateResult(FALSE, "none", "none", agentResults,
                                       "No agents completed successfully")
          /\ UNCHANGED <<ranked, ops>>
     ELSE /\ ranked' \in rankResults(SuccessfulResults(agentResults), DefaultWeights)
          /\ ops' = Append(ops, Op("clone", "final-workspace"))
          /\ pc' = "cloning"
          /\ UNCHANGED outcome
  /\ UNCHANGED <<agents, strategy, fs, agentState, written, runAgents,
                 agentResults, scoreVars, rankVars, run>>

\* the command spawned last has exited with this code
Closed(code) == [ops EXCEPT ![Len(ops)].code = code]

\* a rejection inside mergeBestSolutions reaches the catch block of generate
MergeRejects(code, err) ==
  /\ pc' = "done"
  /\ outcome' = Caught(err)
  /\ ops' = Closed(code)

Spawn(code, name, arg, nextPc) ==
  /\ ops' = Append(Closed(code), Op(name, arg))
  /\ pc' = nextPc
  /\ UNCHANGED outcome

mergeFrame ==
  <<agents, strategy, fs, agentState, written, runAgents, agentResults,
    ranked, scoreVars, rankVars, run>>

(***************************************************************************)
(* ResultMerger.setupFinalBranch.                                          *)
(***************************************************************************)
\* the same creating the branch whatever the clone's exit code
CloneClose_IgnoresCode(code) ==
  /\ pc = "cloning"
  /\ Spawn(code, "checkout-b", FinalBranch, "branching")
  /\ UNCHANGED mergeFrame

CloneClose(code) ==
  /\ pc = "cloning"
  /\ IF code = 0
     THEN Spawn(code, "checkout-b", FinalBranch, "branching")
     ELSE MergeRejects(code, "Failed to clone repository")
  /\ UNCHANGED mergeFrame

\* ResultMerger.mergeBestOverall receives rankedResults[0]
bestResult == ranked[1].result

KnownStrategies == {"best_overall", "best_per_file", "composite"}

\* the same handing the lowest-ranked result to mergeBestOverall
mergeComposite_LastRanked(rankedResults) ==
  rankedResults[Len(rankedResults)].result

\* mergeBestPerFile and mergeComposite: the result each hands to
\* mergeBestOverall
mergeBestPerFile(rankedResults) == rankedResults[1].result
mergeComposite(rankedResults) == rankedResults[1].result

\* the switch on strategy.type: the result mergeBestOverall is called with
mergeTarget(kind) ==
  CASE kind = "best_overall" -> bestResult
    [] kind = "best_per_file" -> mergeBestPerFile(ranked)
    [] kind = "composite" -> mergeComposite(ranked)

\* after the branch exists, the switch on strategy.type; a type outside the
\* three cases merges nothing and goes on to pushBranch
BranchCloseFor(kind, code) ==
  /\ pc = "branching"
  /\ IF code # 0
     THEN MergeRejects(code, "Failed to create branch")
     ELSE IF kind \in KnownStrategies
     THEN Spawn(code, "merge", mergeTarget(kind).branch_name, "merging")
     ELSE Spawn(code, "push", FinalBranch, "pushing")
  /\ UNCHANGED mergeFrame

BranchClose(code) == BranchCloseFor(strategy, code)

(***************************************************************************)
(* ResultMerger.mergeBestOverall.                                          *)
(***************************************************************************)
MergeClose(code) ==
  /\ pc = "merging"
  /\ IF code = 0
     THEN Spawn(code, "push", FinalBranch, "pushing")
     ELSE Spawn(code, "checkout-theirs", ".", "resolving")
  /\ UNCHANGED mergeFrame

\* the exit code of git checkout --theirs is not looked at
ResolveCloseFor(kind, code) ==
  /\ pc = "resolving"
  /\ Spawn(code, "commit", mergeTarget(kind).agent_id, "committing")
  /\ UNCHANGED mergeFrame

ResolveClose(code) == ResolveCloseFor(strategy, code)

\* the same resolving whatever the commit's exit code
CommitClose_IgnoresCode(code) ==
  /\ pc = "committing"
  /\ Spawn(code, "push", FinalBranch, "pushing")
  /\ UNCHANGED mergeFrame

CommitClose(code) ==
  /\ pc = "committing"
  /\ IF code = 0
     THEN Spawn(code, "push", FinalBranch, "pushing")
     ELSE MergeRejects(code, "Failed to resolve merge conflicts")
  /\ UNCHANGED mergeFrame

(***************************************************************************)
(* ResultMerger.pushBranch, then Pangloss.createPullRequest.               *)
(***************************************************************************)
\* the same going on to the pull request whatever the push's exit code
PushClose_IgnoresCode(code) ==
  /\ pc = "pushing"
  /\ Spawn(code, "pr-create", FinalBranch, "pr")
  /\ UNCHANGED mergeFrame

PushClose(code) ==
  /\ pc = "pushing"
  /\ IF code = 0
     THEN Spawn(code, "pr-create", FinalBranch, "pr")
     ELSE MergeRejects(code, "Failed to push branch")
  /\ UNCHANGED mergeFrame

\* the same with a failed gh command rejecting
PrClose_Fatal(code) ==
  /\ pc = "pr"
  /\ IF code = 0
     THEN /\ pc' = "done"
          /\ outcome' = GenerateResult(TRUE, FinalBranch, "url", agentResults, "none")
          /\ ops' = Closed(code)
     ELSE MergeRejects(code, "Could not create PR")
  /\ UNCHANGED mergeFrame

PrClose(code) ==
  /\ pc = "pr"
  /\ pc' = "done"
  /\ outcome' = GenerateResult(TRUE, FinalBranch,
                               IF code = 0 THEN "url" ELSE "none",
                               agentResults, "none")
  /\ ops' = Closed(code)
  /\ UNCHANGED mergeFrame

ExitCodes == {0, 1}

\* one step of mergeBestSolutions and of what follows it in generate, for a
\* strategy of the given kind
MergeStep(kind, code) ==
  \/ CloneClose(code)
  \/ BranchCloseFor(kind, code)
  \/ MergeClose(code)
  \/ ResolveCloseFor(kind, code)
  \/ CommitClose(code)
  \/ PushClose(code)
  \/ PrClose(code)

Next ==
  \/ Validate
  \/ \E i \in 1..Len(agents) : AgentSucceeds(i)
  \/ \E i \in 1..Len(agents) : AgentCrashes(i)
  \/ ComposeCloseZero
  \/ ComposeCloseNonZero
  \/ AfterRunAgents
  \/ \E code \in ExitCodes : CloneClose(code)
  \/ \E code \in ExitCodes : BranchClose(code)
  \/ \E code \in ExitCodes : MergeClose(code)
  \/ \E code \in ExitCodes : ResolveClose(code)
  \/ \E code \in ExitCodes : CommitClose(code)
  \/ \E code \in ExitCodes : PushClose(code)
  \/ \E code \in ExitCodes : PrClose(code)

Spec == Init /\ [][Next]_vars

(***************************************************************************)
(* Successive calls of generate from one working directory, for one task.  *)
(* The results directory and the directory final-workspace are relative to *)
(* the working directory of the process and are removed by no code, so a   *)
(* later call finds what the earlier ones left.  The exit codes of git     *)
(* clone and git merge are those git gives: clone exits with 128 when its  *)
(* destination exists and is not empty, merge exits with 1 on a conflict   *)
(* and with 128 when the branch named is not there.                        *)
(***************************************************************************)
\* names a caller can pass: a preset, a name without a preset, and a name
\* without a preset that the lookup finds on the prototype
CallNames == {"codex-o3", "no-such-agent"} \cup PrototypeNames

\* the directory final-workspace exists: a clone of an earlier call made it
WorkspaceExists ==
  \E k \in 1..Len(ops) : ops[k].op = "clone" /\ ops[k].code = 0

GitCloneCodes == IF WorkspaceExists THEN {128} ELSE ExitCodes

GitMergeCodes == {0, 1, 128}

\* ops keeps the commands of all calls; a later call is marked in it
NumberOfCalls ==
  1 + Cardinality({k \in 1..Len(ops) : ops[k].op = "generate"})

InitCalls ==
  /\ agents \in {<<name>> : name \in CallNames}
  /\ strategy \in StrategyNames
  /\ fs \in FoundDirectories(agents)
  /\ agentState = <<"pending">>
  /\ written = <<JsonNull>>
  /\ pc = "start"
  /\ runAgents = "pending"
  /\ agentResults = <<>>
  /\ ranked = <<>>
  /\ ops = <<>>
  /\ outcome = NoOutcome
  /\ ScoreIdle
  /\ RankIdle
  /\ RunIdle

\* the command-line front end is run again with the same options
GenerateAgain ==
  /\ pc = "done"
  /\ NumberOfCalls < MaxRuns
  /\ pc' = "start"
  /\ runAgents' = "pending"
  /\ agentResults' = <<>>
  /\ ranked' = <<>>
  /\ outcome' = NoOutcome
  /\ agentState' = [i \in 1..Len(agents) |-> "pending"]
  /\ written' = [i \in 1..Len(agents) |-> JsonNull]
  /\ ops' = Append(ops, [op |-> "generate", arg |-> "again", code |-> 0])
  /\ UNCHANGED <<agents, strategy, fs, scoreVars, rankVars, run>>

\* an agent whose provider generateCodeWithCLI knows can run to the end
AgentCanSucceed(i) ==
  AgentRequests(agents)[i].provider \in {"openai", "anthropic", "google"}

NextCalls ==
  \/ Validate
  \/ ContainerRuns(1) /\ AgentCanSucceed(1) /\ AgentSucceeds(1)
  \/ AgentCrashes(1)
  \/ ComposeCloseZero
  \/ ComposeCloseNonZero
  \/ AfterRunAgents
  \/ \E code \in GitCloneCodes : CloneClose(code)
  \/ \E code \in ExitCodes : BranchClose(code)
  \/ \E code \in GitMergeCodes : MergeClose(code)
  \/ \E code \in ExitCodes : ResolveClose(code)
  \/ \E code \in ExitCodes : CommitClose(code)
  \/ \E code \in ExitCodes : PushClose(code)
  \/ \E code \in ExitCodes : PrClose(code)
  \/ GenerateAgain

SpecCalls == InitCalls /\ [][NextCalls]_vars

(***************************************************************************)
(* Scoring: calculateCompositeScore applied to bounded inputs, and         *)
(* re-applied after one input of the score is improved.                    *)
(***************************************************************************)
PipelineIdle ==
  /\ agents = <<"codex-o3">>
  /\ strategy = "best_overall"
  /\ fs = [q \in Paths |-> Absent]
  /\ agentState = <<"pending">>
  /\ written = <<JsonNull>>
  /\ pc = "start"
  /\ runAgents = "pending"
  /\ agentResults = <<>>
  /\ ranked = <<>>
  /\ ops = <<>>
  /\ outcome = NoOutcome
  /\ RunIdle

TestSummaries ==
  {NoTests} \cup {Tests(p, t) : p \in 0..MaxTotal, t \in 0..MaxTotal}

BuildStatuses == {"success", "failed", "not_run"}
Qualities == {0, 50, 100}
Times == {0, 5000, 10000, 20000}

ScoreInputs ==
  {AgentResult("agent", "branch", TRUE, <<"file">>, t, b, Num(q), ms, "none") :
     t \in {ts \in TestSummaries : ts.passed <= ts.total},
     b \in BuildStatuses, q \in Qualities, ms \in Times}

\* non-negative weights; their total is the caller's choice
WeightChoices ==
  {DefaultWeights,
   [test_success |-> Num(1), code_quality |-> Num(2),
    performance |-> Num(0), coverage |-> Num(0)],
   [test_success |-> Num(0), code_quality |-> Num(0),
    performance |-> Num(3), coverage |-> Num(1)]}

InitScore ==
  /\ PipelineIdle
  /\ RankIdle
  /\ cur \in ScoreInputs
  /\ weights \in WeightChoices
  /\ scored = Scoring(IdleResult, DefaultWeights)
  /\ lastOp = "none"

Rescore(result, op) ==
  /\ cur' = result
  /\ scored' = Scoring(result, weights)
  /\ lastOp' = op
  /\ UNCHANGED <<weights, pipelineVars, rankVars, run>>

\* the first scoring of the drawn input
ScoreInput ==
  /\ lastOp = "none"
  /\ Rescore(cur, "score")

RaisePassed ==
  /\ lastOp # "none"
  /\ cur.test_results.present
  /\ cur.test_results.passed < cur.test_results.total
  /\ Rescore([cur EXCEPT !.test_results.passed = @ + 1], "raise_passed")

RaiseQuality ==
  \E q \in Qualities :
    /\ lastOp # "none"
    /\ q > cur.quality_score.n
    /\ Rescore([cur EXCEPT !.quality_score = Num(q)], "raise_quality")

LowerTime ==
  \E ms \in Times :
    /\ lastOp # "none"
    /\ ms < cur.execution_time_ms
    /\ Rescore([cur EXCEPT !.execution_time_ms = ms], "lower_time")

BuildSucceeds ==
  /\ lastOp # "none"
  /\ cur.build_status # "success"
  /\ Rescore([cur EXCEPT !.build_status = "success"], "build_success")

NextScore ==
  ScoreInput \/ RaisePassed \/ RaiseQuality \/ LowerTime \/ BuildSucceeds

SpecScore == InitScore /\ [][NextScore]_vars

(***************************************************************************)
(* Ranking: rankResults applied to bounded lists of results that carry     *)
(* their input position as agent_id.                                       *)
(***************************************************************************)
\* one of two tests passed, nothing built, measured time 0
ProfileQuick == [tests |-> Tests(1, 2), build |-> "failed", quality |-> 0, time |-> 0]

RankProfiles == {ProfileA, ProfileB, ProfileZ, ProfileQuick}

RankIds == <<"r1", "r2", "r3", "r4", "r5">>

RankInputs ==
  UNION {{[i \in 1..n |->
             AgentResult(RankIds[i], RankIds[i], TRUE, <<"file">>, f[i].tests,
                         f[i].build, Num(f[i].quality), f[i].time, "none")] :
            f \in [1..n -> RankProfiles]} : n \in 1..MaxRank}

InitRank ==
  /\ PipelineIdle
  /\ ScoreIdle
  /\ rankIn \in RankInputs
  /\ rankOut = <<>>

DoRank ==
  /\ rankOut = <<>>
  /\ rankOut' \in rankResults(rankIn, DefaultWeights)
  /\ UNCHANGED <<rankIn, pipelineVars, scoreVars, run>>

NextRank == DoRank

SpecRank == InitRank /\ [][NextRank]_vars

(***************************************************************************)
(* One agent container in detail: AgentRunner.run step by step for the     *)
(* single task of a one-agent call, followed by the coordinator's          *)
(* collection.  Every spawned process exits with a code of the             *)
(* environment's choosing.                                                 *)
(***************************************************************************)
RunStart == [NoRun EXCEPT !.step = "mkdir"]

\* the task of the container
request == AgentRequests(agents)[1]

\* generateCodeWithCLI, the cases of the switch on the provider
SupportedProviders == {"openai", "anthropic", "google"}

\* Date.now() - this.startTime
RunTimes == {5000}

\* AgentRunner.run, the record of the try block
SuccessRecord(req, r, ms) ==
  AgentResult(req.provider, req.branch_name, TRUE, r.changedFiles,
              r.testResults, r.buildStatus, r.quality, ms, "none")

\* the same without the error field
FailureRecord_NoError(req, r, ms) ==
  AgentResult(req.provider, req.branch_name, FALSE, <<>>,
              NoTests, "failed", Num(0), ms, "none")

\* the same keeping the files and the build status gathered before the throw
FailureRecord_KeepsGathered(req, r, ms) ==
  AgentResult(req.provider, req.branch_name, FALSE, r.changedFiles,
              NoTests, r.buildStatus, Num(0), ms, r.error)

\* AgentRunner.run, the record of the catch block
FailureRecord(req, r, ms) ==
  AgentResult(req.provider, req.branch_name, FALSE, <<>>,
              NoTests, "failed", Num(0), ms, r.error)

InitAgent ==
  /\ agents = <<"codex-o3">>
  /\ strategy = "best_overall"
  /\ fs \in FoundDirectories(agents)
  /\ agentState = <<"pending">>
  /\ written = <<JsonNull>>
  /\ pc = "start"
  /\ runAgents = "pending"
  /\ agentResults = <<>>
  /\ ranked = <<>>
  /\ ops = <<>>
  /\ outcome = NoOutcome
  /\ ScoreIdle
  /\ RankIdle
  /\ run = RunStart

AtStep(step) == ContainerRuns(1) /\ run.step = step

Advance(step, cmds) ==
  /\ run' = [run EXCEPT !.step = step, !.cmds = @ \o cmds]
  /\ UNCHANGED <<pipelineVars, scoreVars, rankVars>>

\* a throw or a rejection inside the try block of run
Throw(err, cmds) ==
  /\ run' = [run EXCEPT !.step = "catch", !.error = err, !.cmds = @ \o cmds]
  /\ UNCHANGED <<pipelineVars, scoreVars, rankVars>>

\* writeResult succeeded: the record is in the results directory
RunWrites(record, state) ==
  /\ fs' = [fs EXCEPT ![AgentPath(request)] = JsonFile(JSONStringify(record))]
  /\ written' = [written EXCEPT ![1] = JSONStringify(record)]
  /\ agentState' = [agentState EXCEPT ![1] = state]
  /\ run' = [run EXCEPT !.step = "exited"]
  /\ UNCHANGED <<agents, strategy, pc, runAgents, agentResults, ranked, ops,
                 outcome, scoreVars, rankVars>>

RunMkdir(ok) ==
  /\ AtStep("mkdir")
  /\ IF ok THEN Advance("clone", <<>>) ELSE Throw("mkdir failed", <<>>)

\* cloneRepository: git clone, then git checkout -b
RunClone(code) ==
  /\ AtStep("clone")
  /\ IF code = 0
     THEN Advance("branch", <<"clone">>)
     ELSE Throw("Failed to clone repository", <<"clone">>)

RunBranch(code) ==
  /\ AtStep("branch")
  /\ IF code = 0
     THEN Advance("generate", <<"checkout-b">>)
     ELSE Throw("Failed to create branch", <<"checkout-b">>)

\* generateCodeWithCLI; cli records how the CLI process ended
GenerateResolves(how) ==
  /\ run' = [run EXCEPT !.step = "changed", !.cli = how, !.cmds = Append(@, "cli")]
  /\ UNCHANGED <<pipelineVars, scoreVars, rankVars>>

GenerateRejects(how, err) ==
  /\ run' = [run EXCEPT !.step = "catch", !.cli = how, !.error = err,
                        !.cmds = Append(@, "cli")]
  /\ UNCHANGED <<pipelineVars, scoreVars, rankVars>>

\* generateCodeWithCLI: the 'close' handler of the CLI process
RunGenerate(code) ==
  /\ AtStep("generate")
  /\ IF request.provider \notin SupportedProviders
     THEN Throw("Unsupported LLM provider", <<>>)
     ELSE IF code = 0
     THEN GenerateResolves("exit0")
     ELSE GenerateRejects("exit1", "cli failed with code 1")

\* generateCodeWithCLI: the 'error' handler of the CLI process
RunGenerateError ==
  /\ AtStep("generate")
  /\ request.provider \in SupportedProviders
  /\ GenerateRejects("spawn-error", "Failed to start cli")

\* the same with the 'close' handler taking the code null for success
RunGenerateTimeout_Resolves ==
  /\ AtStep("generate")
  /\ request.provider \in SupportedProviders
  /\ GenerateResolves("killed")

\* generateCodeWithCLI: the spawn option `timeout` ran out, the process was
\* sent SIGTERM and its 'close' handler gets the code null
RunGenerateTimeout ==
  /\ AtStep("generate")
  /\ request.provider \in SupportedProviders
  /\ GenerateRejects("killed", "cli failed with code null")

ChangedFileLists == {<<>>, <<"file">>}

RunChangedFiles ==
  \E files \in ChangedFileLists :
    /\ AtStep("changed")
    /\ run' = [run EXCEPT !.step = "tests", !.changedFiles = files,
                          !.cmds = @ \o <<"diff-names", "ls-files">>]
    /\ UNCHANGED <<pipelineVars, scoreVars, rankVars>>

\* runTests: the parsed summary of the first command exiting with 0 (total
\* is passed + failed), or the zero summary
RunTests ==
  \E t \in 0..MaxTotal, p \in 0..MaxTotal :
    /\ p <= t
    /\ AtStep("tests")
    /\ run' = [run EXCEPT !.step = "build", !.testResults = Tests(p, t),
                          !.cmds = @ \o <<"test">>]
    /\ UNCHANGED <<pipelineVars, scoreVars, rankVars>>

RunBuild ==
  \E b \in {"success", "failed"} :
    /\ AtStep("build")
    /\ run' = [run EXCEPT !.step = "playwright", !.buildStatus = b,
                          !.cmds = @ \o <<"build">>]
    /\ UNCHANGED <<pipelineVars, scoreVars, rankVars>>

RunPlaywright ==
  /\ AtStep("playwright")
  /\ Advance("metrics", <<"playwright">>)

\* runCommand: the spawned command never exits.  runCommand resolves only
\* in the 'close' handler and sets no timer, so run waits from then on
ValidationSteps == {"tests", "build", "playwright"}

RunValidationHangs ==
  \E step \in ValidationSteps :
    /\ AtStep(step)
    /\ run' = [run EXCEPT !.step = "waiting", !.cmds = Append(@, step)]
    /\ UNCHANGED <<pipelineVars, scoreVars, rankVars>>

\* runCommand: the command is not installed in the image (agent.Dockerfile
\* installs none of pytest, go and cargo, the later candidates of runTests
\* and runBuild).  spawn then emits 'error' on the child process; runCommand
\* registers no 'error' listener, so the event is thrown as an uncaught
\* exception outside of run's try block and the node process ends
MissingCommandSteps == {"tests", "build"}

RunCommandMissing ==
  \E step \in MissingCommandSteps :
    /\ AtStep(step)
    /\ agentState' = [agentState EXCEPT ![1] = "crashed"]
    /\ run' = [run EXCEPT !.step = "exited", !.error = "spawn ENOENT",
                          !.cmds = Append(@, step)]
    /\ UNCHANGED <<agents, strategy, fs, written, pc, runAgents,
                   agentResults, ranked, ops, outcome, scoreVars, rankVars>>

(***************************************************************************)
(* AgentRunner.calculateMetrics on the output of git diff --numstat HEAD.  *)
(* The output is a sequence of lines `added<TAB>removed<TAB>path`; a field *)
(* is a decimal count, the dash git prints for a binary file, or empty.    *)
(***************************************************************************)
Count(c) == [kind |-> "count", n |-> c]
Dash == [kind |-> "dash", n |-> 0]
\* the empty string, and the undefined of a field that is not there
NoField == [kind |-> "empty", n |-> 0]

NumstatLine(a, r) == [added |-> a, removed |-> r]

LineCounts == {25, 1000}

NumstatLines ==
  {NumstatLine(Count(a), Count(r)) : a \in LineCounts, r \in LineCounts}
    \cup {NumstatLine(Dash, Dash)}

\* what the command printed; nothing for an empty diff and for a diff that
\* failed
DiffOutputs == UNION {[1..n -> NumstatLines] : n \in 0..MaxLines}

\* stdout.trim().split('\n'): the empty output is one empty line, whose
\* first field is '' and whose second field is undefined
SplitLines(stdout) ==
  IF stdout = <<>> THEN <<NumstatLine(NoField, NoField)>> ELSE stdout

\* parseInt
ParseInt(field) == IF field.kind = "count" THEN Num(field.n) ELSE NaN

RECURSIVE SumFields(_, _, _)
SumFields(lines, which, i) ==
  IF i > Len(lines) THEN Num(0)
  ELSE LET field == IF which = "added" THEN lines[i].added ELSE lines[i].removed
           rest == SumFields(lines, which, i + 1)
       IN IF field.kind # "dash" THEN JSPlus(ParseInt(field), rest) ELSE rest

calculateMetrics(stdout) ==
  LET lines == SplitLines(stdout)
      added == SumFields(lines, "added", 1)
      removed == SumFields(lines, "removed", 1)
  IN [lines_added |-> added, lines_removed |-> removed,
      quality_score |-> MathMin(Num(100), JSDiv(JSPlus(added, removed), Num(10)))]

RunMetrics ==
  \E stdout \in DiffOutputs :
    /\ AtStep("metrics")
    /\ run' = [run EXCEPT !.step = "commit",
                          !.quality = calculateMetrics(stdout).quality_score,
                          !.cmds = @ \o <<"diff-numstat">>]
    /\ UNCHANGED <<pipelineVars, scoreVars, rankVars>>

\* what git commit and git push left behind: the agent branch is on the
\* remote when the push exited with 0, with or without a new commit
PushState(commitCode, pushCode) ==
  IF pushCode # 0 THEN "failed"
  ELSE IF commitCode # 0 THEN "ok-without-commit" ELSE "ok"

\* the same with a failed commit or push rejecting
RunCommitAndPush_Throws ==
  \E commitCode \in {0, 1}, pushCode \in {0, 1} :
    /\ AtStep("commit")
    /\ run' = [run EXCEPT
                 !.step = IF commitCode = 0 /\ pushCode = 0 THEN "write" ELSE "catch",
                 !.error = IF commitCode = 0 /\ pushCode = 0 THEN "none"
                           ELSE "Failed to push",
                 !.push = PushState(commitCode, pushCode),
                 !.cmds = @ \o <<"add", "commit", "push">>]
    /\ UNCHANGED <<pipelineVars, scoreVars, rankVars>>

\* commitAndPush: the three exit codes are not looked at
RunCommitAndPush ==
  \E commitCode \in {0, 1}, pushCode \in {0, 1} :
    /\ AtStep("commit")
    /\ run' = [run EXCEPT !.step = "write",
                          !.push = PushState(commitCode, pushCode),
                          !.cmds = @ \o <<"add", "commit", "push">>]
    /\ UNCHANGED <<pipelineVars, scoreVars, rankVars>>

\* writeResult of the try block; a failed write is caught like any throw
RunWriteSuccess(ok) ==
  /\ AtStep("write")
  /\ IF ok
     THEN \E ms \in RunTimes :
            RunWrites(SuccessRecord(request, run, ms), "wrote_success")
     ELSE Throw("Failed to write result", <<>>)

\* writeResult of the catch block; when it fails too, run rejects, the
\* rejection is logged and the process ends without a record
RunWriteFailure(ok) ==
  /\ AtStep("catch")
  /\ IF ok
     THEN \E ms \in RunTimes :
            RunWrites(FailureRecord(request, run, ms), "wrote_failure")
     ELSE /\ agentState' = [agentState EXCEPT ![1] = "crashed"]
          /\ run' = [run EXCEPT !.step = "exited"]
          /\ UNCHANGED <<agents, strategy, fs, written, pc, runAgents,
                         agentResults, ranked, ops, outcome, scoreVars, rankVars>>

\* the steps run takes once the event it awaits has arrived
RunStep ==
  \/ \E ok \in BOOLEAN : RunMkdir(ok)
  \/ \E code \in ExitCodes : RunClone(code)
  \/ \E code \in ExitCodes : RunBranch(code)
  \/ \E code \in ExitCodes : RunGenerate(code)
  \/ RunGenerateError
  \/ RunGenerateTimeout
  \/ RunChangedFiles
  \/ RunTests
  \/ RunBuild
  \/ RunPlaywright
  \/ RunCommandMissing
  \/ RunMetrics
  \/ RunCommitAndPush
  \/ \E ok \in BOOLEAN : RunWriteSuccess(ok)
  \/ \E ok \in BOOLEAN : RunWriteFailure(ok)

NextAgent ==
  \/ Validate
  \/ RunStep
  \/ RunValidationHangs
  \/ AgentCrashes(1)
  \/ ComposeCloseZero
  \/ ComposeCloseNonZero

SpecAgent == InitAgent /\ [][NextAgent]_vars

\* the same with the scheduling the code relies on: generate and run go on
\* as soon as they can (the generation process exits or is killed by its
\* timer, and the commands that do exit are followed up), and docker-compose
\* up exits once every container has exited.  Nothing forces a container to
\* be killed or docker-compose to fail.
SpecAgentFair ==
  /\ SpecAgent
  /\ WF_vars(Validate)
  /\ WF_vars(RunStep)
  /\ WF_vars(ComposeCloseZero)

(***************************************************************************)
(* Properties.                                                             *)
(***************************************************************************)
Launched == InvalidAgents(agents) = {}

SomeAgentSucceeded ==
  \E i \in 1..Len(agentResults) : agentResults[i].success

HasProfile(r, prof) ==
  /\ r.test_results = prof.tests
  /\ r.build_status = prof.build
  /\ r.quality_score = Num(prof.quality)
  /\ r.execution_time_ms = prof.time

\* C1: once every agent has exited, at least one of them by crashing,
\* runAgents returns a list with exactly one result per task.
C1_RunAgentsReturnsOnePerTask ==
  (/\ Launched
   /\ pc \notin {"start", "agents"}
   /\ AllAgentsExited
   /\ \E i \in 1..Len(agents) : agentState[i] = "crashed")
    => (runAgents = "resolved" /\ Len(agentResults) = Len(agents))

\* C2: the record the agent of task i wrote is element i of the list
\* runAgents returns.
C2_WrittenRecordIsCollected ==
  runAgents = "resolved" =>
    \A i \in 1..Len(agents) :
      agentState[i] = "wrote_success" => agentResults[i] = written[i]

\* C3: only results with success = true are ranked, and the branch handed to
\* git merge is the branch of the top-ranked one, a result with success = true.
C3_MergeSelectsSuccessfulOnly ==
  /\ \A k \in 1..Len(ranked) :
       /\ ranked[k].result.success
       /\ \E i \in 1..Len(agentResults) : agentResults[i] = ranked[k].result
  /\ \A k \in 1..Len(ops) :
       ops[k].op = "merge" =>
         /\ bestResult.success
         /\ ops[k].arg = bestResult.branch_name
         /\ \E i \in 1..Len(agentResults) :
              agentResults[i].success /\ agentResults[i] = bestResult

\* C3 witness: a merge was started while one of the results is a failure.
C3_Witness ==
  /\ \E k \in 1..Len(ops) : ops[k].op = "merge"
  /\ \E i \in 1..Len(agentResults) :
       agentResults[i].shape = "result" /\ ~agentResults[i].success

\* C4: when every collected result has success = false, no clone, branch,
\* merge, push or pull-request command is run, and generate returns
\* success = false without a final branch.
C4_AllFailedNoMerge ==
  (runAgents = "resolved" /\ ~SomeAgentSucceeded) =>
    /\ ops = <<>>
    /\ pc = "done" => /\ outcome.returned
                      /\ ~outcome.success
                      /\ outcome.final_branch = "none"
                      /\ outcome.pr_url = "none"

\* C4 witness: generate returned the zero-success outcome for a list of
\* failures.
C4_Witness ==
  /\ pc = "done"
  /\ runAgents = "resolved"
  /\ ~SomeAgentSucceeded
  /\ ~DisplayThrows(agentResults)
  /\ outcome.error = "No agents completed successfully"

\* C5 as stated: the returned outcome has success = true exactly when some
\* collected agent result has success = true.
C5_SuccessIffSomeAgentSucceeded ==
  pc = "done" => (outcome.success <=> SomeAgentSucceeded)

MergeStepsSucceeded ==
  /\ \E k \in 1..Len(ops) : ops[k].op = "push" /\ ops[k].code = 0
  /\ \A k \in 1..Len(ops) :
       ops[k].op \in {"clone", "checkout-b", "commit", "push"} => ops[k].code = 0

\* C5 amended: the returned outcome has success = true exactly when some
\* collected result has success = true, the results could be displayed, and
\* clone, branch creation, the conflict commit (if any) and the push of the
\* final branch all exited with 0.
C5_SuccessIffMergedSomeSuccess ==
  pc = "done" =>
    (outcome.success <=>
       (SomeAgentSucceeded /\ ~DisplayThrows(agentResults) /\ MergeStepsSucceeded))

\* C5 witness: an agent succeeded, the push failed, the outcome is a failure.
C5_Witness ==
  /\ pc = "done"
  /\ SomeAgentSucceeded
  /\ ~outcome.success
  /\ \E k \in 1..Len(ops) : ops[k].op = "push" /\ ops[k].code # 0

PositionIn(list, r) == CHOOSE i \in 1..Len(list) : list[i] = r

\* C6: the list rankResults returns is in descending order of composite
\* score, and results with equal scores keep their input order.
C6_RankedDescendingStable ==
  rankOut # <<>> =>
    \A i, j \in 1..Len(rankOut) :
      i < j =>
        /\ JSLeq(rankOut[j].composite_score, rankOut[i].composite_score)
        /\ rankOut[i].composite_score = rankOut[j].composite_score
             => PositionIn(rankIn, rankOut[i].result)
                  < PositionIn(rankIn, rankOut[j].result)

\* C7: the test sub-score is passed/total when total > 0 and 0 otherwise, and
\* the composite score is a number.
C7_TestScoreGuardsZeroTotal ==
  lastOp # "none" =>
  /\ (cur.test_results.present /\ cur.test_results.total > 0)
       => scored.test = Rat(cur.test_results.passed, cur.test_results.total)
  /\ (~cur.test_results.present \/ cur.test_results.total = 0)
       => scored.test = Num(0)
  /\ IsNum(scored.composite)

\* C8: the performance term is a number, at most 1, equal to 1 for an
\* execution time of 0 and to min(1, 10000/t) for every other time t.
C8_PerformanceCapped ==
  lastOp # "none" =>
  /\ IsNum(scored.perf)
  /\ JSLeq(scored.perf, Num(1))
  /\ cur.execution_time_ms = 0 => scored.perf = Num(1)
  /\ (cur.execution_time_ms > 0 /\ cur.execution_time_ms <= 10000)
       => scored.perf = Num(1)
  /\ cur.execution_time_ms > 10000
       => scored.perf.n * cur.execution_time_ms = 10000 * scored.perf.d

\* C8 witness: a result whose time was lowered to 0 has been scored.
C8_Witness ==
  /\ lastOp = "lower_time"
  /\ cur.execution_time_ms = 0
  /\ scored.perf = Num(1)

\* the composite of the claim, for a result with total > 0 and time > 0
ExpectedComposite(r) ==
  LET capped == r.execution_time_ms <= 10000
  IN JSPlus(JSPlus(JSPlus(Rat(2 * r.test_results.passed, 5 * r.test_results.total),
                          Rat(3 * r.quality_score.n, 1000)),
                   Rat(IF capped THEN 1 ELSE 10000,
                       5 * (IF capped THEN 1 ELSE r.execution_time_ms))),
            Rat(IF r.build_status = "success" THEN 1 ELSE 0, 10))

OnlyAandB ==
  \A k \in 1..Len(ranked) :
    HasProfile(ranked[k].result, ProfileA) \/ HasProfile(ranked[k].result, ProfileB)

\* C9: with the default weights result A scores 0.86 and result B 0.78; when
\* the successful results are A's and B's, A is ranked before B and the
\* branch merged is A's; a result with total > 0 scores
\* test*0.4 + quality/100*0.3 + perf*0.2 + 0.1*build.
C9_ScenarioRanksAFirst ==
  /\ \A k \in 1..Len(ranked) :
       /\ HasProfile(ranked[k].result, ProfileA)
            => ranked[k].composite_score = Rat(43, 50)
       /\ HasProfile(ranked[k].result, ProfileB)
            => ranked[k].composite_score = Rat(39, 50)
       /\ ranked[k].result.test_results.total > 0
            => ranked[k].composite_score = ExpectedComposite(ranked[k].result)
  /\ OnlyAandB =>
       /\ \A k, l \in 1..Len(ranked) :
            (HasProfile(ranked[k].result, ProfileA)
               /\ HasProfile(ranked[l].result, ProfileB)) => k < l
       /\ \A k \in 1..Len(ops) :
            (ops[k].op = "merge"
               /\ \E l \in 1..Len(ranked) : HasProfile(ranked[l].result, ProfileA))
              => /\ HasProfile(bestResult, ProfileA)
                 /\ ops[k].arg = bestResult.branch_name

\* C9 witness: B was collected before A, A is ranked first and its branch is
\* being merged.
C9_Witness ==
  /\ Len(agentResults) = 2
  /\ HasProfile(agentResults[1], ProfileB)
  /\ HasProfile(agentResults[2], ProfileA)
  /\ agentResults[1].branch_name # agentResults[2].branch_name
  /\ Len(ranked) = 2
  /\ \E k \in 1..Len(ops) :
       ops[k].op = "merge" /\ ops[k].arg = agentResults[2].branch_name

NotLowered(old, new) ==
  \/ JSLeq(old, new)
  \/ (old.k = "nan" /\ new.k = "nan")

\* C10: raising passed (total > 0), raising quality_score, lowering
\* execution_time_ms or turning build_status into success never lowers the
\* composite score.
C10_ScoreMonotonic ==
  [][lastOp # "none" => NotLowered(scored.composite, scored'.composite)]_vars

\* C10 witness: a result was rescored after its number of passed tests rose
\* to its total.
C10_Witness ==
  /\ lastOp = "raise_passed"
  /\ cur.test_results.total > 0
  /\ cur.test_results.passed = cur.test_results.total
  /\ IsNum(scored.composite)

PushFailed == \E k \in 1..Len(ops) : ops[k].op = "push" /\ ops[k].code > 0

\* C11: once the push of the final branch has exited non-zero, generate has
\* returned success = false with the push error and without a final branch,
\* and no pull-request command was spawned.
C11_PushFailureIsFatal ==
  PushFailed =>
    /\ pc = "done"
    /\ outcome.returned
    /\ ~outcome.success
    /\ outcome.error = "Failed to push branch"
    /\ outcome.final_branch = "none"
    /\ outcome.pr_url = "none"
    /\ \A k \in 1..Len(ops) : ops[k].op # "pr-create"

\* C11 witness: the merge succeeded without conflict and the push after it
\* failed.
C11_Witness ==
  /\ PushFailed
  /\ \E k \in 1..Len(ops) : ops[k].op = "merge" /\ ops[k].code = 0
  /\ outcome.returned

PrFailed == \E k \in 1..Len(ops) : ops[k].op = "pr-create" /\ ops[k].code > 0

MergeConflicted == \E k \in 1..Len(ops) : ops[k].op = "merge" /\ ops[k].code > 0

\* C13: after a merge that reported a conflict, the incoming side is checked
\* out, the commit names the source agent, and mergeBestOverall resolves:
\* generate never returns the conflict-resolution error.
C13_ConflictRecovered ==
  MergeConflicted =>
    /\ \A k \in 1..Len(ops) :
         ops[k].op = "commit" =>
           /\ ops[k].arg = bestResult.agent_id
           /\ k > 1 /\ ops[k - 1].op = "checkout-theirs"
    /\ pc = "done" =>
         /\ outcome.error # "Failed to resolve merge conflicts"
         /\ \E k \in 1..Len(ops) : ops[k].op = "push"

\* C14: when one agent has crashed and another has written a success
\* record, a returned outcome comes from the merge phase: the run was not
\* aborted before the clone of the final workspace.
C14_AgentCrashIsolated ==
  (/\ pc = "done"
   /\ \E i \in 1..Len(agents) : agentState[i] = "crashed"
   /\ \E i \in 1..Len(agents) : agentState[i] = "wrote_success")
    => \E k \in 1..Len(ops) : ops[k].op = "clone"

\* C15: in the list runAgents returns, element i is a result of task i: it
\* carries the branch name of task i.
C15_ResultsIndexAligned ==
  runAgents = "resolved" =>
    /\ Len(agentResults) = Len(agents)
    /\ \A i \in 1..Len(agentResults) :
         agentResults[i].shape = "result" =>
           agentResults[i].branch_name = AgentRequests(agents)[i].branch_name

\* C16: in no step that leaves the merge phase started (a clone, branch,
\* merge, commit or push command spawned) does an agent write or exit: every
\* agent has exited before, the results directory does not change, the only
\* branch the merge phase pushes is the final branch, and no agent's branch
\* is the final branch.
C16_MergeAfterAgentsExit ==
  [][ops' # <<>> =>
       /\ AllAgentsExited
       /\ agentState' = agentState
       /\ written' = written
       /\ fs' = fs
       /\ \A k \in 1..Len(ops') : ops'[k].op = "push" => ops'[k].arg = FinalBranch
       /\ \A i \in 1..Len(agents) :
            AgentRequests(agents)[i].branch_name # FinalBranch]_vars

\* C16 witness: the final branch is being pushed in a run where one agent
\* wrote its record and another crashed.
C16_Witness ==
  /\ \E k \in 1..Len(ops) : ops[k].op = "push"
  /\ \E i \in 1..Len(agents) : agentState[i] = "wrote_success"
  /\ \E i \in 1..Len(agents) : agentState[i] = "crashed"

\* C17: for a list generate accepts, the branch names of the tasks are
\* pairwise different, and none is the final branch.
C17_BranchNamesUnique ==
  (Launched /\ pc # "start") =>
    /\ \A i, j \in 1..Len(agents) :
         i # j => AgentRequests(agents)[i].branch_name
                    # AgentRequests(agents)[j].branch_name
    /\ \A i \in 1..Len(agents) :
         AgentRequests(agents)[i].branch_name # FinalBranch

DistinctPresets ==
  \A i, j \in 1..Len(agents) : i # j => agents[i] # agents[j]

\* C18: for a list of distinct presets, the agent_id values of the results
\* runAgents returns are pairwise different.
C18_AgentIdsDistinct ==
  (runAgents = "resolved" /\ DistinctPresets) =>
    \A i, j \in 1..Len(agentResults) :
      (i # j /\ agentResults[i].shape = "result" /\ agentResults[j].shape = "result")
        => agentResults[i].agent_id # agentResults[j].agent_id

\* C19: the record an agent wrote stays at the path it wrote it to: no other
\* agent of the run writes the same result.json.
C19_NoSharedResultFile ==
  DistinctPresets =>
    \A i \in 1..Len(agents) :
      agentState[i] = "wrote_success" =>
        fs[AgentPath(AgentRequests(agents)[i])] = JsonFile(written[i])

FailureShape(r) ==
  ~r.success => (r.changes_made = <<>> /\ r.build_status \in {"failed", "not_run"})

\* C20: a record written by the agent, and a result the coordinator
\* substituted for a missing or unreadable file, has no changed files and a
\* build status of failed or not_run whenever its success is false.
C20_FailureHasNoChanges ==
  /\ \A i \in 1..Len(agents) :
       agentState[i] \in {"wrote_success", "wrote_failure"} =>
         /\ written[i].shape = "result"
         /\ FailureShape(written[i])
  /\ runAgents = "resolved" =>
       \A i \in 1..Len(agentResults) :
         fs[CoordinatorPath(i)].kind # "json" =>
           /\ ~agentResults[i].success
           /\ FailureShape(agentResults[i])

\* C20 witness: the agent had gathered changed files and a successful build,
\* failed to write its success record and wrote the failure record; the
\* coordinator substituted its own failure.
C20_Witness ==
  /\ runAgents = "resolved"
  /\ agentState[1] = "wrote_failure"
  /\ run.changedFiles # <<>>
  /\ run.buildStatus = "success"
  /\ ~written[1].success
  /\ agentResults[1].error = "Agent did not complete execution"

RecordWritten(i) == agentState[i] \in {"wrote_success", "wrote_failure"}

\* C21: the quality_score of a result is a number between 0 and 100, in the
\* agent's memory once calculateMetrics has run and in the record it writes.
C21_QualityInRange ==
  /\ run.step \in {"commit", "write", "exited"} =>
       (IsNum(run.quality) /\ JSLeq(run.quality, Num(100)))
  /\ \A i \in 1..Len(agents) :
       RecordWritten(i) =>
         /\ IsNum(written[i].quality_score)
         /\ JSLeq(written[i].quality_score, Num(100))

ErrorIffFailure(r) == (r.error # "none") <=> ~r.success

\* C22: a record written by the agent, and a result the coordinator
\* substituted, has an error exactly when its success is false.
C22_ErrorIffFailure ==
  /\ \A i \in 1..Len(agents) : RecordWritten(i) => ErrorIffFailure(written[i])
  /\ \A i \in 1..Len(agents) :
       agentState[i] = "wrote_success" => written[i].success
  /\ \A i \in 1..Len(agents) :
       agentState[i] = "wrote_failure" => ~written[i].success
  /\ runAgents = "resolved" =>
       \A i \in 1..Len(agentResults) :
         fs[CoordinatorPath(i)].kind # "json" =>
           (~agentResults[i].success /\ ErrorIffFailure(agentResults[i]))

\* C22 witness: the agent wrote a success record, without an error, and the
\* coordinator substituted a failure for an unreadable file.
C22_Witness ==
  /\ runAgents = "resolved"
  /\ agentState[1] = "wrote_success"
  /\ written[1].error = "none"
  /\ agentResults[1].error = "Failed to read result"

\* C23: when run has ended, one record has been written for the task.
C23_ExactlyOneRecord ==
  run.step = "exited" => RecordWritten(1)

\* C24: once the generation process was killed by its timer or exited with
\* a non-zero code, run is in its catch block or has ended, nothing of
\* validation, commit or push was run, no success record is written, and a
\* record that is written has success = false and the error of the process.
C24_GenerationFailureIsFailure ==
  run.cli \in {"killed", "exit1"} =>
    /\ run.step \in {"catch", "exited"}
    /\ run.cmds = <<"clone", "checkout-b", "cli">>
    /\ agentState[1] # "wrote_success"
    /\ agentState[1] = "wrote_failure" =>
         /\ ~written[1].success
         /\ written[1].error = run.error
         /\ run.error \in {"cli failed with code null", "cli failed with code 1"}

\* C24 witness: the generation process was killed by its timer and the
\* failure record is written.
C24_Witness ==
  /\ run.cli = "killed"
  /\ agentState[1] = "wrote_failure"
  /\ written[1].error = "cli failed with code null"

\* C25: when the agent waits for a test, build or end-to-end command that
\* never exits, runAgents eventually returns.
C25_ValidationBounded ==
  (pc = "agents" /\ run.step = "waiting") ~> (runAgents # "pending")

OpIs(k, name, arg) ==
  k <= Len(ops) /\ ops[k].op = name /\ ops[k].arg = arg

C28_RoundTrip ==
  agentState[1] = "wrote_success" =>
    /\ written[1] = SuccessRecord(request, run, written[1].execution_time_ms)
    /\ fs[AgentPath(request)].value = written[1]

SetupErrors == {"Failed to clone repository", "Failed to create branch"}

\* C29: the record written after a failed clone or a failed creation of the
\* agent branch has success = false, build_status not_run and the setup
\* error, and nothing was run after the failed command.
C29_SetupFailureNotRun ==
  (agentState[1] = "wrote_failure" /\ run.error \in SetupErrors) =>
    /\ ~written[1].success
    /\ written[1].error = run.error
    /\ run.cmds \in {<<"clone">>, <<"clone", "checkout-b">>}
    /\ written[1].build_status = "not_run"

Substituted(i, err) ==
  /\ ~agentResults[i].success
  /\ agentResults[i].changes_made = <<>>
  /\ agentResults[i].build_status = "not_run"
  /\ agentResults[i].quality_score = Num(0)
  /\ agentResults[i].execution_time_ms = 0
  /\ agentResults[i].branch_name = AgentRequests(agents)[i].branch_name
  /\ agentResults[i].error = err

\* C30: in the list runAgents returns, the element of a task without a
\* result file is the substituted failure "Agent did not complete
\* execution", that of a task with an unreadable file is the same with the
\* read-failure error, and every other task has what its file holds: the
\* list has one element per task.
C30_MissingResultSubstituted ==
  runAgents = "resolved" =>
    /\ Len(agentResults) = Len(agents)
    /\ \A i \in 1..Len(agentResults) :
         LET file == fs[CoordinatorPath(i)] IN
           /\ file.kind = "absent" =>
                Substituted(i, "Agent did not complete execution")
           /\ file.kind = "unreadable" => Substituted(i, "Failed to read result")
           /\ file.kind = "json" => agentResults[i] = file.value

\* C30 witness: the first task has no file, the second an unreadable one,
\* and a list of two substituted failures is returned.
C30_Witness ==
  /\ runAgents = "resolved"
  /\ Len(agentResults) = 2
  /\ fs[CoordinatorPath(1)].kind = "absent"
  /\ fs[CoordinatorPath(2)].kind = "unreadable"
  /\ agentResults[2].error = "Failed to read result"

\* the commands of the three validation steps, in the order they were run
ValidationCmds ==
  SelectSeq(run.cmds, LAMBDA c : c \in {"test", "build", "playwright",
                                         "tests", "waiting"})

\* C31: once generation has succeeded and run has ended without a failed
\* write, the test, build and end-to-end steps were run in this order and
\* the success record is written: no command of a validation step, failing
\* or missing, keeps the later steps from running or the result from being
\* a success.
C31_ValidationBestEffort ==
  (run.cli = "exit0" /\ run.step = "exited"
     /\ run.error # "Failed to write result") =>
    /\ ValidationCmds = <<"test", "build", "playwright">>
    /\ agentState[1] = "wrote_success"
    /\ written[1].success

\* C32: a non-zero exit of git commit or git push at the end of a run is
\* not thrown: run goes on to write its record, and the record it writes
\* without a failed write has success = true.
C32_PushFailureKeepsSuccess ==
  run.push \in {"failed", "ok-without-commit"} =>
    /\ run.step \in {"write", "catch", "exited"}
    /\ run.error \in {"none", "Failed to write result"}
    /\ (RecordWritten(1) /\ run.error = "none") =>
         (agentState[1] = "wrote_success" /\ written[1].success)

\* C32 witness: the push exited non-zero and the success record is written.
C32_Witness ==
  /\ run.push = "failed"
  /\ agentState[1] = "wrote_success"
  /\ written[1].success

\* C33: when run has ended, the agent branch is on the remote, whether the
\* run succeeded or failed.
C33_BranchPushedRegardless ==
  run.step = "exited" => run.push \in {"ok", "ok-without-commit"}

\* the merge of call k named a branch that is not there
BranchUnavailable(k) == ops[k].op = "merge" /\ ops[k].code = 128

\* C34: after a merge that failed because the agent's branch is not there,
\* the merge engine runs no take-incoming-side resolution, makes no
\* resolution commit and pushes no final branch.
C34_MissingBranchNotResolved ==
  \A k \in 1..Len(ops) :
    BranchUnavailable(k) =>
      \A j \in (k + 1)..Len(ops) :
        (ops[j].op \in {"checkout-theirs", "commit", "push"}) =>
          \E g \in (k + 1)..j : ops[g].op = "generate"

\* C35: every clone of the merge phase finds a fresh workspace: none exits
\* because its destination is there already.
C35_FreshWorkspace ==
  \A k \in 1..Len(ops) : ops[k].op = "clone" => ops[k].code # 128

NoPreset == {i \in 1..Len(agents) : agents[i] \notin PresetNames}

\* C38: when a requested name has no preset in the configuration, no agent
\* is launched, no command of the merge phase is run, and what generate
\* returns is success = false with the invalid-agents error.
C38_InvalidAgentsLaunchNothing ==
  NoPreset # {} =>
    /\ pc \in {"start", "done"}
    /\ runAgents = "pending"
    /\ \A i \in 1..Len(agents) : agentState[i] = "pending"
    /\ \A k \in 1..Len(ops) : ops[k].op = "generate"
    /\ outcome.returned =>
         (~outcome.success /\ outcome.error = "Invalid agents")

\* C36: an outcome with success = true names the final branch, and the
\* branch of the top-ranked result was merged into it before the push, for
\* every merge_strategy string.
C36_SuccessMeansMerged ==
  (outcome.returned /\ outcome.success) =>
    /\ outcome.final_branch = FinalBranch
    /\ \E k \in 1..Len(ops) :
         /\ OpIs(k, "merge", bestResult.branch_name)
         /\ \E j \in (k + 1)..Len(ops) :
              OpIs(j, "push", FinalBranch) /\ ops[j].code = 0

\* C37: the result returned for a task whose agent died before writing is
\* one of the two substituted failures, never a record found on disk.
C37_NoStaleResult ==
  runAgents = "resolved" =>
    \A i \in 1..Len(agentResults) :
      agentState[i] = "crashed" =>
        \/ Substituted(i, "Agent did not complete execution")
        \/ Substituted(i, "Failed to read result")

\* C39: once runAgents has returned its list, the outcome generate returns
\* carries that list, unchanged and in the same order.
C39_OutcomeKeepsAgentResults ==
  (outcome.returned /\ runAgents = "resolved") =>
    outcome.agent_results = agentResults

====
